---- MODULE Spec2Model ----
(***************************************************************************)
(* wormhole/server.py: the IRC client of the wormhole bot (IRCClient on a  *)
(* tornado IOStream and IOLoop), its line parser, its handler fan-out and  *)
(* the routing of messages that come back from slack.                      *)
(*                                                                         *)
(* Text is a sequence of one-character strings, so that slicing, find,     *)
(* split and strip are computed as Python computes them.  "ETX" stands for *)
(* the byte 0x03 and "BAD" for a byte that is not valid UTF-8.             *)
(***************************************************************************)
EXTENDS Naturals, Integers, Sequences, FiniteSets, TLC

(***************************************************************************)
(* Bounds of the model.                                                    *)
(***************************************************************************)
MaxStreams == 2
MaxInputs == 4
\* the longest source prefix and the longest trailing parameter of the lines
\* given to the parser alone
MaxSource == 5
MaxTrailing == 3
\* the most pieces (placeholders and stretches of other text) of a message
\* given to color_wrap alone
MaxPieces == 3

(***************************************************************************)
(* Python values and string operations.                                    *)
(***************************************************************************)
None == <<"None">>

Truthy(x) == x # None /\ x # <<>>

Min(a, b) == IF a < b THEN a ELSE b

\* s[a:b] for 0 <= a, 0 <= b
Slice(s, a, b) == IF Min(b, Len(s)) <= a THEN <<>> ELSE SubSeq(s, a + 1, Min(b, Len(s)))

\* s[a:]
SliceFrom(s, a) == Slice(s, a, Len(s))

\* s.startswith(sub) at offset a
MatchAt(s, sub, a) == a + Len(sub) <= Len(s) /\ Slice(s, a, a + Len(sub)) = sub

Least(hits) == IF hits = {} THEN -1 ELSE CHOOSE a \in hits : \A b \in hits : a <= b

\* s.find(sub): the least 0-based offset, or -1
Find(s, sub) == Least({a \in 0..Len(s) : MatchAt(s, sub, a)})

\* sub in s
Contains(s, sub) == Find(s, sub) # -1

\* the two sides of s around the separator found at offset p
SplitAt(s, sep, p) ==
    IF p = -1 THEN <<s>> ELSE <<Slice(s, 0, p), SliceFrom(s, p + Len(sep))>>

\* s.split(sep, 1)
Split1(s, sep) == SplitAt(s, sep, Find(s, sep))

RECURSIVE SplitRest(_, _)
SplitRest(parts, sep) ==
    IF Len(parts) = 1 THEN parts
    ELSE <<parts[1]>> \o SplitRest(Split1(parts[2], sep), sep)

\* s.split(sep)
SplitAll(s, sep) == SplitRest(Split1(s, sep), sep)

RECURSIVE LStrip(_, _)
LStrip(s, chars) ==
    IF s # <<>> /\ Head(s) \in chars THEN LStrip(Tail(s), chars) ELSE s

RECURSIVE RStrip(_, _)
RStrip(s, chars) ==
    IF s # <<>> /\ s[Len(s)] \in chars THEN RStrip(SubSeq(s, 1, Len(s) - 1), chars) ELSE s

\* s.strip(chars)
Strip(s, chars) == LStrip(RStrip(s, chars), chars)

Whitespace == {" ", "\t", "\n", "\r", "\f"}

\* "".join(ss)
RECURSIVE Concat(_)
Concat(ss) == IF ss = <<>> THEN <<>> ELSE Head(ss) \o Concat(Tail(ss))

LowerChar(c) ==
    CASE c = "B" -> "b"
      [] c = "F" -> "f"
      [] c = "U" -> "u"
      [] c = "P" -> "p"
      [] c = "I" -> "i"
      [] c = "N" -> "n"
      [] c = "G" -> "g"
      [] c = "R" -> "r"
      [] c = "V" -> "v"
      [] c = "M" -> "m"
      [] c = "S" -> "s"
      [] c = "O" -> "o"
      [] c = "J" -> "j"
      [] c = "K" -> "k"
      [] c = "C" -> "c"
      [] c = "E" -> "e"
      [] OTHER -> c

\* s.lower()
Lower(s) == [i \in 1..Len(s) |-> LowerChar(s[i])]

(***************************************************************************)
(* settings.json: the nick, the channels to join and the highlight rules.  *)
(* A rule is a term (bare trigger) or a list of terms; "list" tags which.  *)
(***************************************************************************)
NAME == <<"w">>

ConfigChannels == << <<"d">>, <<"o">> >>

HIGHLIGHTS(channel) ==
    CASE channel = <<"a", "l", "l">> -> << [list |-> FALSE, terms |-> << <<"u">> >>] >>
      [] channel = <<"d">> -> << [list |-> TRUE, terms |-> << <<"b">>, <<"f">> >>] >>
      [] OTHER -> <<>>

PING == <<"P", "I", "N", "G">>
PRIVMSG == <<"P", "R", "I", "V", "M", "S", "G">>

(***************************************************************************)
(* IRCClient._read_message, lines 141-165: the parse of one received line. *)
(* The result is the Event, or the exception the parse raises.             *)
(***************************************************************************)
Event(raw, line, source, nick, user, host, code, args, msg, channel) ==
    [raw |-> raw, line |-> line, source |-> source, nick |-> nick, user |-> user,
     host |-> host, code |-> code, args |-> args, msg |-> msg, channel |-> channel]

NoEvent == Event(<<>>, <<>>, None, None, None, None, <<>>, <<>>, None, None)

\* lines 152-157: nick, user and host out of the source, i and j being the
\* offsets of "!" and "@" in it
SplitSource(source, msg, i, j) ==
    [source |-> source,
     msg |-> msg,
     nick |-> IF i > 0 /\ j > 0 THEN Slice(source, 0, i) ELSE None,
     user |-> IF i > 0 /\ j > 0 THEN Slice(source, i + 1, j) ELSE None,
     host |-> IF i > 0 /\ j > 0 THEN SliceFrom(source, j + 1) ELSE None]

\* lines 150-153
PrefixOf(source, msg) ==
    SplitSource(source, msg, Find(source, <<"!">>), Find(source, <<"@">>))

\* lines 148-157: the source prefix of a line that starts with ":", pos
\* being the offset of its first space
PrefixAt(line, pos) == PrefixOf(Slice(line, 1, pos), SliceFrom(line, pos + 1))

ParsePrefix(line) == PrefixAt(line, Find(line, <<" ">>))

\* lines 145-146: a line without a prefix
NoPrefix(line) ==
    [source |-> None, msg |-> line, nick |-> None, user |-> None, host |-> None]

\* lines 160-162: code and args out of the words before " :" and the rest
CodeArgs(words, sp) ==
    [code |-> Head(words),
     args |-> IF Len(sp) = 2 THEN Append(Tail(words), sp[2]) ELSE Tail(words)]

ArgsOf(sp) == CodeArgs(SplitAll(sp[1], <<" ">>), sp)

\* A faulty ParseArgs: the trailing parameter is split off at the first ":",
\* not at the first " :".
ParseArgs_colon(msg) == ArgsOf(Split1(msg, <<":">>))

\* lines 159-162: code and args
ParseArgs(msg) == ArgsOf(Split1(msg, <<" ", ":">>))

\* lines 164-165: the Event; args[-1] raises on an empty list
MakeEvent(line, pre, ca) ==
    IF ca.args = <<>> THEN [exc |-> "IndexError", event |-> NoEvent]
    ELSE [exc |-> "none",
          event |-> Event(line, line, pre.source, pre.nick, pre.user, pre.host,
                          ca.code, ca.args, ca.args[Len(ca.args)],
                          IF Contains(ca.args[1], <<"#">>) THEN ca.args[1] ELSE None)]

WithPrefix(line, pre) == MakeEvent(line, pre, ParseArgs(pre.msg))

\* lines 143-165, line being the received bytes without the line end
ParseLine(line) ==
    IF \E k \in 1..Len(line) : line[k] = "BAD"
      THEN [exc |-> "UnicodeDecodeError", event |-> NoEvent]
    ELSE IF line = <<>>
      THEN [exc |-> "IndexError", event |-> NoEvent]
    ELSE IF line[1] # ":"
      THEN WithPrefix(line, NoPrefix(line))
    ELSE IF ~Contains(line, <<" ">>)
      THEN [exc |-> "ValueError", event |-> NoEvent]
    ELSE WithPrefix(line, ParsePrefix(line))

Parse(raw) == ParseLine(RStrip(raw, {"\r", "\n"}))

(***************************************************************************)
(* color_wrap, lines 35-59.                                                *)
(***************************************************************************)
WordChars ==
    {"a", "b", "c", "d", "e", "f", "g", "h", "i", "j", "k", "l", "m", "n", "o", "p",
     "q", "r", "s", "t", "u", "v", "w", "x", "y", "z", "B", "C", "E", "F", "G", "I",
     "J", "K", "M", "N", "O", "P", "R", "S", "U", "V", "0", "1", "2", "3", "4", "5",
     "6", "7", "8", "9", "_"}

\* lines 37-55
colors(word) ==
    CASE word = <<"w", "h", "i", "t", "e">> -> <<"0", "0">>
      [] word = <<"b", "l", "a", "c", "k">> -> <<"0", "1">>
      [] word = <<"n", "a", "v", "y">> -> <<"0", "2">>
      [] word = <<"g", "r", "e", "e", "n">> -> <<"0", "3">>
      [] word = <<"r", "e", "d">> -> <<"0", "4">>
      [] word = <<"b", "r", "o", "w", "n">> -> <<"0", "5">>
      [] word = <<"p", "u", "r", "p", "l", "e">> -> <<"0", "6">>
      [] word = <<"o", "r", "a", "n", "g", "e">> -> <<"0", "7">>
      [] word = <<"y", "e", "l", "l", "o", "w">> -> <<"0", "8">>
      [] word = <<"l", "i", "m", "e">> -> <<"0", "9">>
      [] word = <<"t", "e", "a", "l">> -> <<"1", "0">>
      [] word = <<"c", "y", "a", "n">> -> <<"1", "1">>
      [] word = <<"b", "l", "u", "e">> -> <<"1", "2">>
      [] word = <<"p", "i", "n", "k">> -> <<"1", "3">>
      [] word = <<"g", "r", "a", "y">> -> <<"1", "4">>
      [] word = <<"s", "i", "l", "v", "e", "r">> -> <<"1", "5">>
      [] word = <<"r", "e", "s", "e", "t">> -> <<"9", "9">>
      [] OTHER -> None

\* A faulty _wrap: the colour code is written without the control byte.
Colored_no_control(word, color) == IF Truthy(color) THEN color ELSE word

\* lines 56-58: the replacement of one match
Colored(word, color) == IF Truthy(color) THEN <<"ETX">> \o color ELSE word

wrap(word) == Colored(word, colors(word))

\* the length of the longest prefix of s made of \w characters
RECURSIVE WordRun(_)
WordRun(s) == IF s # <<>> /\ Head(s) \in WordChars THEN 1 + WordRun(Tail(s)) ELSE 0

\* whether the pattern matches at the head of msg, n being the number of
\* \w characters after "${"
PlaceholderAt(msg, n) ==
    MatchAt(msg, <<"$", "{">>, 0) /\ n > 0 /\ MatchAt(msg, <<"}">>, n + 2)

\* line 59: re.sub(r'\${(\w+)}', _wrap, msg), leftmost matches first
RECURSIVE color_wrap(_)
WrapFrom(msg, n) ==
    IF PlaceholderAt(msg, n)
      THEN wrap(Slice(msg, 2, n + 2)) \o color_wrap(SliceFrom(msg, n + 3))
    ELSE <<Head(msg)>> \o color_wrap(Tail(msg))

color_wrap(msg) ==
    IF msg = <<>> THEN <<>> ELSE WrapFrom(msg, WordRun(SliceFrom(msg, 2)))

(***************************************************************************)
(* get_highlights_for and contains_highlight, lines 72-91.                 *)
(***************************************************************************)
get_highlights_for(channel) ==
    HIGHLIGHTS(<<"a", "l", "l">>) \o HIGHLIGHTS(Strip(channel, {"#"}))

\* lines 85-90: whether one rule matches the lower-cased message
RuleMatches(hl, msg) ==
    IF hl.list THEN \A k \in 1..Len(hl.terms) : Contains(msg, hl.terms[k])
    ELSE Contains(msg, hl.terms[1])

\* the value returned, or the exception raised (None.strip: AttributeError)
\* lines 84-91: whether one of the rules matches
AnyMatches(hls, msg) == \E k \in 1..Len(hls) : RuleMatches(hls[k], msg)

contains_highlight(event) ==
    IF event.code # PRIVMSG THEN [exc |-> "none", value |-> FALSE]
    ELSE IF event.channel = None THEN [exc |-> "AttributeError", value |-> FALSE]
    ELSE [exc |-> "none",
          value |-> AnyMatches(get_highlights_for(event.channel), Lower(event.msg))]

\* line 62 and line 94: the registry holds the one handler registered
IRC_COMMAND_REGISTRY == <<"ping">>

(***************************************************************************)
(* The state: the fields of IRCClient (lines 108-118), the streams it has  *)
(* opened, and the IOLoop.                                                 *)
(*   stream     self.stream: 0 for None, else the id of an IOStream        *)
(*   open       the streams that are not closed                            *)
(*   reading    the streams with a read_until callback registered          *)
(*   inbuf      per stream, the lines received and not yet consumed        *)
(*   callbacks  the IOLoop's callback queue, run first in first out        *)
(*   running    the handler that is inside requests.post (the loop's one   *)
(*              thread is inside it), or Idle                              *)
(*   inflight   the polls fetched and not yet answered                     *)
(*   started    the arrival numbers of the lines whose handler has started *)
(*   last       what the last operation did: its name, its effects in the  *)
(*              order the code made them (a "send" is a call of            *)
(*              send_message, a "write" a line the stream accepted), and   *)
(*              the exception it ended with                                *)
(*   inputs     the number of calls, lines and polls so far                *)
(*   hung_up    whether close() was called since the last stream was       *)
(*              opened                                                     *)
(***************************************************************************)
VARIABLES stream, open, reading, inbuf, channels,
          most_recent_highlight_channel, most_recent_highlight_nick,
          callbacks, running, inflight, started, last,
          opened, received, inputs, hung_up

vars == <<stream, open, reading, inbuf, channels,
          most_recent_highlight_channel, most_recent_highlight_nick,
          callbacks, running, inflight, started, last,
          opened, received, inputs, hung_up>>

Streams == 1..MaxStreams

CRLF == <<"\r", "\n">>

Idle == [event |-> NoEvent, n |-> 0]

\* One effect: its kind, the stream it is on (0: none), whether that stream
\* is open at that moment, and the line or name it carries.
Fx(k, s, up, line) == [k |-> k, s |-> s, up |-> up, line |-> line]

ReadCallback(s, item) ==
    [kind |-> "read", s |-> s, raw |-> item.raw, name |-> "", event |-> NoEvent,
     n |-> item.n]

HandlerCallback(name, event, n) ==
    [kind |-> "handler", s |-> 0, raw |-> <<>>, name |-> name, event |-> event, n |-> n]

\* The client and the loop as one value, on which the methods below act.
\* exc is the exception in flight: a method called with one does nothing.
State ==
    [stream |-> stream, open |-> open, reading |-> reading, inbuf |-> inbuf,
     channels |-> channels,
     most_recent_highlight_channel |-> most_recent_highlight_channel,
     most_recent_highlight_nick |-> most_recent_highlight_nick,
     callbacks |-> callbacks, opened |-> opened, hung_up |-> hung_up, n |-> 0,
     fx |-> <<>>, exc |-> "none"]

Raise(st, e) == [st EXCEPT !.exc = e]

Effect(st, k, s, line) == [st EXCEPT !.fx = Append(@, Fx(k, s, s \in st.open, line))]

\* IOStream.close: idempotent; a registered read is dropped, the read buffer kept
stream_close(st, s) ==
    Effect([st EXCEPT !.open = @ \ {s}, !.reading = @ \ {s}], "close", s, <<>>)

\* A faulty send_message: a write that cannot be made is dropped in silence.
send_message_swallow(st, line) ==
    IF st.exc # "none" THEN st
    ELSE IF st.stream = 0 \/ st.stream \notin st.open
      THEN Effect(st, "send", st.stream, line)
    ELSE Effect(Effect(st, "send", st.stream, line), "write", st.stream, line \o CRLF)

\* lines 184-188.  IOStream.write raises StreamClosedError on a closed stream
send_message(st, line) ==
    IF st.exc # "none" THEN st
    ELSE IF st.stream = 0
      THEN Raise(Effect(st, "send", st.stream, line), "AttributeError")
    ELSE IF st.stream \notin st.open
      THEN Raise(Effect(st, "send", st.stream, line), "StreamClosedError")
    ELSE Effect(Effect(st, "send", st.stream, line), "write", st.stream, line \o CRLF)

\* line 138.  IOStream.read_until: asserts that no read is registered, then
\* hands a buffered line to the loop at once, else raises on a closed
\* stream, else registers the callback
read_until(st, s) ==
    IF s \in st.reading THEN Raise(st, "AssertionError")
    ELSE IF st.inbuf[s] # <<>>
      THEN Effect([st EXCEPT !.inbuf[s] = Tail(@),
                             !.callbacks = Append(@, ReadCallback(s, Head(st.inbuf[s])))],
                  "arm", s, <<>>)
    ELSE IF s \notin st.open THEN Raise(st, "StreamClosedError")
    ELSE Effect([st EXCEPT !.reading = @ \cup {s}], "arm", s, <<>>)

\* lines 137-138
wait_for_input(st) ==
    IF st.exc # "none" THEN st
    ELSE IF st.stream = 0 THEN Raise(st, "AttributeError")
    ELSE read_until(st, st.stream)

\* A faulty join: a channel that is already in the set is not joined again.
join_once(st, channel) ==
    IF st.exc # "none" THEN st
    ELSE IF (<<"#">> \o channel) \in st.channels THEN st
    ELSE send_message([st EXCEPT !.channels = @ \cup {<<"#">> \o channel}],
                      <<"J", "O", "I", "N", " ", "#">> \o channel)

\* lines 133-135
join(st, channel) ==
    IF st.exc # "none" THEN st
    ELSE send_message([st EXCEPT !.channels = @ \cup {<<"#">> \o channel}],
                      <<"J", "O", "I", "N", " ", "#">> \o channel)

\* lines 129-130
RECURSIVE JoinAll(_, _)
JoinAll(st, chans) ==
    IF chans = <<>> THEN st ELSE JoinAll(join(st, Head(chans)), Tail(chans))

NickLine == <<"N", "I", "C", "K", " ">> \o NAME

UserLine == <<"U", "S", "E", "R", " ">> \o NAME \o <<" ", "0", " ", "*", " ", ":">> \o NAME

\* lines 124-126: the new socket and the IOStream on it
OpenStream(st, ok) ==
    IF st.exc # "none" THEN st
    ELSE IF ~ok THEN Raise(st, "ConnectionRefusedError")
    ELSE Effect([st EXCEPT !.stream = st.opened + 1, !.open = @ \cup {st.opened + 1},
                           !.opened = @ + 1, !.hung_up = FALSE],
                "open", st.opened + 1, <<>>)

\* lines 121-122
CloseOld(st) == IF st.stream # 0 THEN stream_close(st, st.stream) ELSE st

\* A faulty connect: the previous stream is left open.
connect_no_close(st, ok) ==
    wait_for_input(JoinAll(send_message(send_message(OpenStream(st, ok), NickLine), UserLine),
                           ConfigChannels))

\* A faulty connect: the read is armed before NICK and USER are sent.
connect_read_first(st, ok) ==
    JoinAll(send_message(send_message(wait_for_input(OpenStream(CloseOld(st), ok)),
                                      NickLine),
                         UserLine),
            ConfigChannels)

\* lines 120-131
connect(st, ok) ==
    wait_for_input(
        JoinAll(send_message(send_message(OpenStream(CloseOld(st), ok), NickLine),
                             UserLine),
                ConfigChannels))

\* lines 228-229
close(st) ==
    IF st.stream = 0 THEN Raise(st, "AttributeError")
    ELSE stream_close([st EXCEPT !.hung_up = TRUE], st.stream)

\* lines 177-179
RECURSIVE Spawn(_, _, _)
Spawn(st, names, event) ==
    IF names = <<>> THEN st
    ELSE Spawn(Effect([st EXCEPT !.callbacks = Append(@, HandlerCallback(Head(names), event, st.n))],
                      "spawn", 0, <<Head(names)>>),
               Tail(names), event)

dispatch(st, event) ==
    IF st.exc # "none" THEN st ELSE Spawn(st, IRC_COMMAND_REGISTRY, event)

PongLine(event) == <<"P", "O", "N", "G", " ">> \o event.args[1]

\* A faulty handle_event: a PING is answered and also fanned out.
handle_event_fan_out(st, event) ==
    wait_for_input(dispatch(IF event.code = PING THEN send_message(st, PongLine(event)) ELSE st,
                            event))

\* lines 170-175
handle_event(st, event) ==
    wait_for_input(IF event.code = PING THEN send_message(st, PongLine(event))
                   ELSE dispatch(st, event))

\* lines 164-168: the parse raised, or the Event goes to handle_event
Parsed(st, p) ==
    IF p.exc # "none" THEN Raise(st, p.exc) ELSE handle_event(st, p.event)

\* lines 140-168
_read_message(st, raw) == Parsed(st, Parse(raw))

\* lines 181-182
send_to_channel(st, channel, line) ==
    send_message(st, PRIVMSG \o <<" ">> \o channel \o <<" ", ":">> \o color_wrap(line))

Decorated(user, msg) ==
    <<"[", "s", "l", "a", "c", "k", "]", " ", "@">> \o user
        \o <<" ", "s", "a", "i", "d", " ", "'">> \o msg \o <<"'">>

\* lines 214-215: the channel an explicit destination names
SlackChannel(msg) == <<"#">> \o Strip(Split1(msg, <<":">>)[1], {"#"})

\* lines 214 and 216: the text after the first colon
SlackText(msg) == Strip(Split1(msg, <<":">>)[2], Whitespace)

\* lines 217-218: the error logged for a channel that is not joined; the
\* method goes on
CheckJoined(st, channel) ==
    IF channel \notin st.channels THEN Effect(st, "error", 0, channel) ELSE st

\* lines 217-226, for an explicit destination
SendExplicit(st, user, channel, text) ==
    send_to_channel(CheckJoined(st, channel), channel, Decorated(user, text))

\* A faulty send_from_slack: the recorded channel is not used as a fallback.
send_from_slack_no_fallback(st, user, msg) ==
    IF Contains(msg, <<":">>)
      THEN SendExplicit(st, user, SlackChannel(msg), SlackText(msg))
    ELSE Effect(st, "error", 0, <<>>)

\* lines 212-226
send_from_slack(st, user, msg) ==
    IF Contains(msg, <<":">>)
      THEN SendExplicit(st, user, SlackChannel(msg), SlackText(msg))
    ELSE IF Truthy(st.most_recent_highlight_channel)
      THEN send_to_channel(st, st.most_recent_highlight_channel, Decorated(user, msg))
    ELSE Effect(st, "error", 0, <<>>)

\* lines 196-204: doc.parsed is whether json.loads returned, doc.empty whether
\* what it returned is falsy
handle_response(st, doc) ==
    IF ~doc.parsed THEN st
    ELSE IF doc.empty THEN st
    ELSE send_from_slack(st, doc.user_name, doc.text)

(***************************************************************************)
(* What the environment supplies: the lines the server sends, the bodies   *)
(* the poll endpoint answers with, the arguments of the calls made on the  *)
(* client from outside.                                                    *)
(***************************************************************************)
Prefix == <<":", "n", "!", "u", "@", "h", " ">>

ServerLines ==
    { PING \o <<" ", ":", "x">> \o CRLF,
      Prefix \o PRIVMSG \o <<" ", "#", "d", " ", ":", "U">> \o CRLF,
      <<":", "s", " ", "0", "0", "1", " ", "w", " ", ":", "x">> \o CRLF,
      Prefix \o PRIVMSG \o <<" ", "w", " ", ":", "u">> \o CRLF,
      <<":", "s", " ">> \o PRIVMSG \o <<" ", "#", "x", " ", ":", "u">> \o CRLF,
      CRLF,
      <<":", "s">> \o CRLF,
      PING \o CRLF }

Doc(parsed, empty, user_name, text) ==
    [parsed |-> parsed, empty |-> empty, user_name |-> user_name, text |-> text]

\* line 203: doc["user_name"][0], the same slack user in every poll
PollUser == <<"k">>

PollDocs ==
    { Doc(FALSE, TRUE, <<>>, <<>>),
      Doc(TRUE, FALSE, PollUser, <<"d", ":", " ", "x">>),
      Doc(TRUE, FALSE, PollUser, <<"z", ":", "x">>),
      Doc(TRUE, FALSE, PollUser, <<"d", " ", ":", " ", "x">>),
      Doc(TRUE, FALSE, PollUser, <<"x">>) }

JoinNames == { <<"z">> }

SentLines == { <<"Q">> }

PostOutcomes == {"ok", "status_error", "exception"}

(***************************************************************************)
(* The actions.  Python runs on the loop's one thread: nothing of the      *)
(* client runs while a handler is inside requests.post.                    *)
(***************************************************************************)
LoopFree == running = Idle

Last(op, st, arg) ==
    [op |-> op, fx |-> st.fx, exc |-> st.exc, arg |-> arg,
     stream |-> stream, wasOpen |-> stream \in open]

Commit(st) ==
    /\ stream' = st.stream
    /\ open' = st.open
    /\ reading' = st.reading
    /\ inbuf' = st.inbuf
    /\ channels' = st.channels
    /\ most_recent_highlight_channel' = st.most_recent_highlight_channel
    /\ most_recent_highlight_nick' = st.most_recent_highlight_nick
    /\ callbacks' = st.callbacks
    /\ opened' = st.opened
    /\ hung_up' = st.hung_up

\* IOStream's wrapper around a read callback: the stream that delivered the
\* line is closed when the callback raises
Wrapper(st, s) == IF st.exc # "none" THEN stream_close(st, s) ELSE st

Ended(st, op, arg) == Commit(st) /\ last' = Last(op, st, arg)

Init ==
    /\ stream = 0
    /\ open = {}
    /\ reading = {}
    /\ inbuf = [s \in Streams |-> <<>>]
    /\ channels = {}
    /\ most_recent_highlight_channel = None
    /\ most_recent_highlight_nick = None
    /\ callbacks = <<>>
    /\ running = Idle
    /\ inflight = 0
    /\ started = <<>>
    /\ opened = 0
    /\ received = 0
    /\ inputs = 0
    /\ hung_up = FALSE
    /\ last = Last("init", State, <<>>)

\* bot.connect(), line 236 and every later reconnect
Connect(ok) ==
    /\ LoopFree
    /\ opened < MaxStreams
    /\ inputs < MaxInputs
    /\ inputs' = inputs + 1
    /\ Ended(connect(State, ok), "connect", <<>>)
    /\ UNCHANGED <<running, inflight, started, received>>

\* bot.close()
Close ==
    /\ LoopFree
    /\ inputs < MaxInputs
    /\ inputs' = inputs + 1
    /\ Ended(close(State), "close", <<>>)
    /\ UNCHANGED <<running, inflight, started, received>>

\* bot.join(channel)
Join(channel) ==
    /\ LoopFree
    /\ inputs < MaxInputs
    /\ inputs' = inputs + 1
    /\ Ended(join(State, channel), "join", channel)
    /\ UNCHANGED <<running, inflight, started, received>>

\* bot.send_message(line)
SendMessage(line) ==
    /\ LoopFree
    /\ inputs < MaxInputs
    /\ inputs' = inputs + 1
    /\ Ended(send_message(State, line), "send_message", line)
    /\ UNCHANGED <<running, inflight, started, received>>

\* the server sends a line on a connection that is up
ServerLine(s, raw) ==
    /\ s \in open
    /\ inputs < MaxInputs
    /\ inputs' = inputs + 1
    /\ received' = received + 1
    /\ inbuf' = [inbuf EXCEPT ![s] = Append(@, [raw |-> raw, n |-> received + 1])]
    /\ last' = Last("server_line", State, raw)
    /\ UNCHANGED <<stream, open, reading, channels, most_recent_highlight_channel,
                   most_recent_highlight_nick, callbacks, running, inflight, started,
                   opened, hung_up>>

\* IOStream._handle_read: the registered read gets its line; the callback
\* is queued on the loop and the registration cleared
Deliver(s) ==
    /\ LoopFree
    /\ s \in reading
    /\ s \in open
    /\ inbuf[s] # <<>>
    /\ inbuf' = [inbuf EXCEPT ![s] = Tail(@)]
    /\ reading' = reading \ {s}
    /\ callbacks' = Append(callbacks, ReadCallback(s, Head(inbuf[s])))
    /\ last' = Last("deliver", State, <<>>)
    /\ UNCHANGED <<stream, open, channels, most_recent_highlight_channel,
                   most_recent_highlight_nick, running, inflight, started,
                   opened, received, inputs, hung_up>>

RunReadCallback(cb) ==
    Ended(Wrapper(_read_message([State EXCEPT !.callbacks = Tail(@), !.n = cb.n], cb.raw),
                  cb.s),
          "_read_message", cb.raw)

\* The loop runs a queued _read_message.
RunRead ==
    /\ LoopFree
    /\ callbacks # <<>>
    /\ Head(callbacks).kind = "read"
    /\ RunReadCallback(Head(callbacks))
    /\ UNCHANGED <<running, inflight, started, received, inputs>>

\* lines 96-98: the handler ends at once, or enters requests.post
StartHandler(cb, hl) ==
    /\ running' = IF hl.exc = "none" /\ hl.value
                    THEN [event |-> cb.event, n |-> cb.n] ELSE Idle
    /\ last' = Last("ping_insights", Raise(State, hl.exc), cb.event.raw)

\* The loop runs a spawned ping_insights, lines 94-98: up to the post.
RunHandler ==
    /\ LoopFree
    /\ callbacks # <<>>
    /\ Head(callbacks).kind = "handler"
    /\ callbacks' = Tail(callbacks)
    /\ started' = Append(started, Head(callbacks).n)
    /\ StartHandler(Head(callbacks), contains_highlight(Head(callbacks).event))
    /\ UNCHANGED <<stream, open, reading, inbuf, channels,
                   most_recent_highlight_channel, most_recent_highlight_nick,
                   inflight, opened, received, inputs, hung_up>>

\* requests.post returns or raises, lines 98-103
PostReturns(outcome) ==
    /\ running # Idle
    /\ running' = Idle
    /\ IF outcome = "exception"
         THEN /\ UNCHANGED <<most_recent_highlight_channel, most_recent_highlight_nick>>
              /\ last' = Last("post", Raise(State, "ConnectionError"), <<outcome>>)
         ELSE /\ most_recent_highlight_channel' = running.event.channel
              /\ most_recent_highlight_nick' = running.event.nick
              /\ last' = Last("post", State, <<outcome>>)
    /\ UNCHANGED <<stream, open, reading, inbuf, channels, callbacks,
                   inflight, started, opened, received, inputs, hung_up>>

\* the PeriodicCallback fires, lines 206-209 and 238-239
Pinger ==
    /\ LoopFree
    /\ inputs < MaxInputs
    /\ inputs' = inputs + 1
    /\ inflight' = inflight + 1
    /\ last' = Last("pinger", State, <<>>)
    /\ UNCHANGED <<stream, open, reading, inbuf, channels,
                   most_recent_highlight_channel, most_recent_highlight_nick,
                   callbacks, running, started, opened, received, hung_up>>

\* the poll is answered, lines 196-204
HandleResponse(doc) ==
    /\ LoopFree
    /\ inflight > 0
    /\ inflight' = inflight - 1
    /\ Ended(handle_response(State, doc), "_handle_response", doc.text)
    /\ UNCHANGED <<running, started, received, inputs>>

Next ==
    \/ \E ok \in BOOLEAN : Connect(ok)
    \/ Close
    \/ \E channel \in JoinNames : Join(channel)
    \/ \E line \in SentLines : SendMessage(line)
    \/ \E s \in Streams, raw \in ServerLines : ServerLine(s, raw)
    \/ \E s \in Streams : Deliver(s)
    \/ RunRead
    \/ RunHandler
    \/ \E outcome \in PostOutcomes : PostReturns(outcome)
    \/ Pinger
    \/ \E doc \in PollDocs : HandleResponse(doc)

Spec == Init /\ [][Next]_vars

(***************************************************************************)
(* What the claims read off a state.                                       *)
(***************************************************************************)
OfKind(fx, k) == SelectSeq(fx, LAMBDA e : e.k = k)

\* the reads outstanding on stream s: the registered one, and the
\* _read_message callbacks queued on the loop
PendingReads(s) ==
    (IF s \in reading THEN 1 ELSE 0)
        + Cardinality({i \in DOMAIN callbacks :
                           callbacks[i].kind = "read" /\ callbacks[i].s = s})

\* the last operation was _read_message and it reached handle_event
Handled == last.op = "_read_message" /\ Parse(last.arg).exc = "none"

HandledEvent == Parse(last.arg).event

ParseErrors == {"IndexError", "ValueError", "UnicodeDecodeError"}

WriteErrors == {"AttributeError", "StreamClosedError"}

(***************************************************************************)
(* C1.  For every event whose code is PING, handle_event calls             *)
(* send_message exactly once, with 'PONG <args[0]>', before it re-arms the *)
(* read and returns, and spawns no registered handler.  The line is        *)
(* written to the attached stream when that stream is open; on a closed    *)
(* stream the write raises StreamClosedError and nothing is written.       *)
(***************************************************************************)
C1_PingAnsweredInline ==
    (Handled /\ HandledEvent.code = PING) =>
        LET fx == last.fx
            pong == PongLine(HandledEvent)
        IN /\ Len(OfKind(fx, "send")) = 1
           /\ fx[1] = Fx("send", last.stream, last.wasOpen, pong)
           /\ OfKind(fx, "spawn") = <<>>
           /\ \A i \in DOMAIN callbacks : callbacks[i].kind = "handler" =>
                  callbacks[i].event.code # PING
           /\ IF last.wasOpen
                THEN OfKind(fx, "write") = <<Fx("write", last.stream, TRUE, pong \o CRLF)>>
                ELSE OfKind(fx, "write") = <<>> /\ last.exc = "StreamClosedError"

C1_Witness ==
    /\ Handled
    /\ HandledEvent.code = PING
    /\ last.exc = "none"
    /\ OfKind(last.fx, "write") # <<>>
    /\ OfKind(last.fx, "arm") # <<>>

(***************************************************************************)
(* C2.  In send_from_slack, when the body contains ':' and the channel     *)
(* named before the first ':' is not joined, no PRIVMSG line is sent.      *)
(***************************************************************************)
C2_UnjoinedChannelDropped ==
    (/\ last.op = "_handle_response"
     /\ Contains(last.arg, <<":">>)
     /\ SlackChannel(last.arg) \notin channels)
        => \A i \in DOMAIN last.fx :
               last.fx[i].k = "write" => ~MatchAt(last.fx[i].line, PRIVMSG, 0)

(***************************************************************************)
(* C3.  After every event handed to handle_event, whatever the outcome,    *)
(* the read loop is re-armed: exactly one read is pending on the stream.   *)
(***************************************************************************)
C3_ReadRearmed ==
    Handled => /\ Len(OfKind(last.fx, "arm")) = 1
               /\ stream # 0
               /\ PendingReads(stream) = 1

(***************************************************************************)
(* C4.  The line parser is total: for every received line _read_message    *)
(* builds an Event and hands it to handle_event without raising, so a      *)
(* malformed line never stops the read loop.                               *)
(***************************************************************************)
C4_ParserTotal ==
    last.op = "_read_message" =>
        /\ last.exc \notin ParseErrors
        /\ Parse(last.arg).exc = "none"
        /\ (last.wasOpen => stream \in open)

(***************************************************************************)
(* C5.  Events are processed in arrival order: each handler's invocation   *)
(* for an earlier line starts before its invocation for a later line, and  *)
(* at most one read is pending on a stream at any time.                    *)
(***************************************************************************)
C5_ArrivalOrder ==
    /\ \A i, j \in DOMAIN started : i < j => started[i] < started[j]
    /\ \A s \in Streams : PendingReads(s) <= 1

(***************************************************************************)
(* C6.  For every non-PING event each handler of the registry is invoked   *)
(* exactly once, and a handler that fails or takes arbitrarily long        *)
(* prevents neither the next read from being armed nor the next line from  *)
(* being handled: while a handler is still inside its webhook post, a      *)
(* line that is ready can be handled.                                      *)
(***************************************************************************)
C6_HandlersIndependent ==
    /\ (Handled /\ HandledEvent.code # PING) =>
           Len(OfKind(last.fx, "spawn")) = Len(IRC_COMMAND_REGISTRY)
    /\ (last.op \in {"ping_insights", "post"} /\ last.exc # "none") =>
           (last.wasOpen => stream \in open)
    /\ (running # Idle /\ callbacks # <<>> /\ Head(callbacks).kind = "read") =>
           ENABLED RunRead

(***************************************************************************)
(* C7.  After close() has been called on the connection, the poller never  *)
(* attempts a write on the closed stream: a poll response that arrives     *)
(* after close results in no send_message call.                            *)
(***************************************************************************)
C7_NoPollSendAfterClose ==
    (last.op = "_handle_response" /\ hung_up) => OfKind(last.fx, "send") = <<>>

(***************************************************************************)
(* C8.  Across any sequence of connect() and close() calls at most one     *)
(* stream is open at any time: each connect() closes the previously        *)
(* attached stream before a new transport is opened, and the stream        *)
(* attribute always refers to the most recently opened one.                *)
(***************************************************************************)
C8_OneLiveStream ==
    /\ Cardinality(open) <= 1
    /\ open \subseteq {stream}
    /\ stream = opened
    /\ (last.op = "connect" /\ last.stream # 0) =>
           /\ last.fx # <<>>
           /\ last.fx[1] = Fx("close", last.stream, FALSE, <<>>)
           /\ \A i \in DOMAIN last.fx : last.fx[i].k = "open" => i > 1

C8_Witness ==
    /\ last.op = "connect"
    /\ last.stream = 1
    /\ last.wasOpen
    /\ stream = 2
    /\ open = {2}

(***************************************************************************)
(* C9.  send_message called when no stream is attached or when the stream  *)
(* is closed ends in an error that propagates to the caller: nothing is    *)
(* written, nothing the caller would have done next is done, and channels  *)
(* and the most-recent-highlight state are as they were.                   *)
(***************************************************************************)
C9_FailedSend(fx, exc, i) ==
    /\ exc \in WriteErrors
    /\ (fx[i].s = 0) = (exc = "AttributeError")
    /\ \A j \in DOMAIN fx : j > i => fx[j].k = "close"

C9_SendFailurePropagates ==
    [][/\ \A i \in DOMAIN last'.fx :
              (last'.fx[i].k = "send" /\ ~last'.fx[i].up) =>
                  C9_FailedSend(last'.fx, last'.exc, i)
       /\ (last'.op = "send_message" /\ ~(stream \in open)) =>
              /\ last'.exc \in WriteErrors
              /\ OfKind(last'.fx, "write") = <<>>
              /\ UNCHANGED <<stream, open, reading, inbuf, channels, callbacks,
                             most_recent_highlight_channel,
                             most_recent_highlight_nick>>]_vars

C9_Witness ==
    /\ last.op = "send_message"
    /\ last.stream # 0
    /\ last.exc = "StreamClosedError"

(***************************************************************************)
(* C10.  On every connect() the lines written to the newly opened stream   *)
(* are, in this order, 'NICK <nick>', 'USER <nick> 0 * :<nick>', then one  *)
(* 'JOIN #<c>' for each configured channel c; the first read is armed only *)
(* after all of them, and nothing is written to the new stream before NICK.*)
(***************************************************************************)
C10_Sent(s, line) == <<Fx("send", s, TRUE, line), Fx("write", s, TRUE, line \o CRLF)>>

C10_Joins(s) ==
    Concat([k \in DOMAIN ConfigChannels |->
                C10_Sent(s, <<"J", "O", "I", "N", " ", "#">> \o ConfigChannels[k])])

C10_ConnectOrder ==
    (last.op = "connect" /\ OfKind(last.fx, "open") # <<>>) =>
        LET s == OfKind(last.fx, "open")[1].s
            onNew == SelectSeq(last.fx, LAMBDA e : e.s = s)
        IN onNew = <<Fx("open", s, TRUE, <<>>)>>
                       \o C10_Sent(s, NickLine) \o C10_Sent(s, UserLine)
                       \o C10_Joins(s) \o <<Fx("arm", s, TRUE, <<>>)>>

C10_Witness ==
    /\ last.op = "connect"
    /\ last.exc = "none"
    /\ last.stream = 1
    /\ stream = 2
    /\ reading = {2}

(***************************************************************************)
(* C11.  join is idempotent on the channel set but not on the wire: every  *)
(* join(name) leaves channels equal to what it was plus '#name' (the set   *)
(* never shrinks and holds one entry per distinct name), and makes one     *)
(* send_message('JOIN #name') call, also for a name that is already in the *)
(* set.  The JOIN line is written when the attached stream is open; with   *)
(* no stream attached or a closed one the entry is still added, the call   *)
(* raises and no line is written.                                          *)
(***************************************************************************)
C11_JoinLine(channel) == <<"J", "O", "I", "N", " ", "#">> \o channel

C11_JoinSends(fx, channel) ==
    SelectSeq(fx, LAMBDA e : e.k = "send" /\ e.line = C11_JoinLine(channel))

C11_JoinWrites(fx, channel) ==
    SelectSeq(fx, LAMBDA e : e.k = "write" /\ e.line = C11_JoinLine(channel) \o CRLF)

C11_JoinIdempotentOnSet ==
    [][/\ channels \subseteq channels'
       /\ (last'.op = "join") =>
              /\ channels' = channels \cup {<<"#">> \o last'.arg}
              /\ Len(C11_JoinSends(last'.fx, last'.arg)) = 1
              /\ IF stream \in open
                   THEN /\ Len(C11_JoinWrites(last'.fx, last'.arg)) = 1
                        /\ last'.exc = "none"
                   ELSE /\ OfKind(last'.fx, "write") = <<>>
                        /\ last'.exc \in WriteErrors
       /\ (last'.op = "connect" /\ last'.exc = "none") =>
              \A k \in DOMAIN ConfigChannels :
                  /\ (<<"#">> \o ConfigChannels[k]) \in channels'
                  /\ Len(C11_JoinWrites(last'.fx, ConfigChannels[k])) = 1]_vars

\* a join of a name that is in the set already, on an open stream
C11_Witness ==
    /\ last.op = "join"
    /\ last.wasOpen
    /\ last.exc = "none"
    /\ Len(C11_JoinWrites(last.fx, last.arg)) = 1
    /\ (<<"#">> \o last.arg) \in channels
    /\ inputs = 3
    /\ inflight = 0
    /\ received = 0
    /\ opened = 1
    /\ ~hung_up

(***************************************************************************)
(* C12.  In send_from_slack, when the body contains no ':': if a           *)
(* most_recent_highlight_channel is recorded, exactly one send_message     *)
(* call is made, with the PRIVMSG to that channel (written when the stream *)
(* is open); if none is recorded, no line is sent at all, only the error   *)
(* is logged, and the connection state is unchanged.                       *)
(***************************************************************************)
\* the poll handed a body to send_from_slack (a body that parsed and is not
\* empty)
C12_Routed(l) == l.op = "_handle_response" /\ l.arg # <<>>

C12_Privmsg(channel, user, msg) ==
    PRIVMSG \o <<" ">> \o channel \o <<" ", ":">> \o color_wrap(Decorated(user, msg))

C12_FallbackRoute ==
    [][(C12_Routed(last') /\ ~Contains(last'.arg, <<":">>)) =>
          IF Truthy(most_recent_highlight_channel)
            THEN /\ OfKind(last'.fx, "send") =
                        <<Fx("send", stream, stream \in open,
                             C12_Privmsg(most_recent_highlight_channel, PollUser,
                                         last'.arg))>>
                 /\ OfKind(last'.fx, "error") = <<>>
                 /\ IF stream \in open
                      THEN /\ Len(OfKind(last'.fx, "write")) = 1
                           /\ last'.exc = "none"
                      ELSE /\ OfKind(last'.fx, "write") = <<>>
                           /\ last'.exc \in WriteErrors
            ELSE /\ last'.fx = <<Fx("error", 0, FALSE, <<>>)>>
                 /\ last'.exc = "none"
                 /\ UNCHANGED <<stream, open, reading, inbuf, channels, callbacks,
                                most_recent_highlight_channel,
                                most_recent_highlight_nick, opened, hung_up>>]_vars

\* a body without ':' went to the recorded channel
C12_Witness ==
    /\ C12_Routed(last)
    /\ ~Contains(last.arg, <<":">>)
    /\ Truthy(most_recent_highlight_channel)
    /\ last.exc = "none"
    /\ OfKind(last.fx, "write") =
           <<Fx("write", stream, TRUE,
                C12_Privmsg(most_recent_highlight_channel, PollUser, last.arg) \o CRLF)>>

(***************************************************************************)
(* C13.  most_recent_highlight_channel and most_recent_highlight_nick      *)
(* change only when ping_insights ran on an event that matched the         *)
(* highlight predicate and the webhook delivery succeeded, and then they   *)
(* become that event's channel and nick; an event that does not match, or  *)
(* a delivery that fails, leaves both unchanged, and no operation ever     *)
(* resets them to unset.                                                   *)
(***************************************************************************)
C13_Recorded == <<most_recent_highlight_channel, most_recent_highlight_nick>>

C13_RecordedOnSuccessOnly ==
    [][/\ (C13_Recorded' # C13_Recorded) =>
              /\ last'.op = "post"
              /\ last'.arg = <<"ok">>
              /\ contains_highlight(running.event).value
              /\ C13_Recorded' = <<running.event.channel, running.event.nick>>
       /\ (last'.op = "post" /\ last'.arg # <<"ok">>) => UNCHANGED C13_Recorded
       /\ (most_recent_highlight_channel # None) => (most_recent_highlight_channel' # None)
       /\ (most_recent_highlight_nick # None) => (most_recent_highlight_nick' # None)]_vars

(***************************************************************************)
(* C14.  When the webhook delivery made by ping_insights fails, the        *)
(* handler returns normally: the failure is not raised out of the handler, *)
(* and the delivery is not retried.                                        *)
(***************************************************************************)
C14_DeliveryFailureContained ==
    /\ (last.op = "post") => /\ last.exc = "none"
                             /\ running = Idle
    /\ (last.op = "ping_insights" /\ running # Idle) => last.exc = "none"

(***************************************************************************)
(* C15.  contains_highlight returns true for an event exactly when its     *)
(* code is PRIVMSG and at least one trigger among the 'all' rules followed *)
(* by the rules of the event's channel (name without '#') matches the      *)
(* lower-cased message, a list trigger matching only if every term is a    *)
(* substring and a bare trigger if it is a substring; for every event with *)
(* another code it returns false.                                          *)
(***************************************************************************)
\* the channel's name without '#'; an event without a channel has no rules
\* of its own
C15_Rules(e) ==
    HIGHLIGHTS(<<"a", "l", "l">>)
        \o (IF e.channel = None THEN <<>> ELSE HIGHLIGHTS(Strip(e.channel, {"#"})))

C15_TriggerMatches(hl, msg) ==
    IF hl.list THEN \A k \in DOMAIN hl.terms : Contains(msg, hl.terms[k])
    ELSE Contains(msg, hl.terms[1])

C15_Expected(e) ==
    /\ e.code = PRIVMSG
    /\ \E k \in DOMAIN C15_Rules(e) : C15_TriggerMatches(C15_Rules(e)[k], Lower(e.msg))

C15_HighlightPredicate ==
    (last.op = "ping_insights") =>
        /\ contains_highlight(Parse(last.arg).event).exc = "none"
        /\ contains_highlight(Parse(last.arg).event).value
               = C15_Expected(Parse(last.arg).event)

(***************************************************************************)
(* The parser alone: _read_message's parse applied to lines drawn from     *)
(* bounded sets.  last holds the bytes received and what the parse gives.  *)
(***************************************************************************)
\* every text of at most n characters over chars
Texts(chars, n) == UNION {[1..k -> chars] : k \in 0..n}

\* lines with a source prefix: ":<source> C :x"
PrefixedLines ==
    { <<":">> \o source \o <<" ", "C", " ", ":", "x">> :
          source \in Texts({"!", "@", "n"}, MaxSource) }

Middles == { <<>>, <<" ", "#", "d">>, <<" ", "m", " ", "k">> }

\* lines with a trailing parameter: "[:n!u@h ]C[ <middle>...] :<trailing>"
TrailingLines ==
    { pre \o <<"C">> \o mid \o <<" ", ":">> \o trailing :
          pre \in {<<>>, Prefix}, mid \in Middles,
          trailing \in Texts({":", " ", "x"}, MaxTrailing) }

ParserLines == PrefixedLines \cup TrailingLines

\* lines 140-165 on one received line
ParseInput(line) ==
    /\ last.op = "init"
    /\ last' = [op |-> "parse", arg |-> line \o CRLF, out |-> Parse(line \o CRLF)]
    /\ UNCHANGED <<stream, open, reading, inbuf, channels,
                   most_recent_highlight_channel, most_recent_highlight_nick,
                   callbacks, running, inflight, started, opened, received, inputs,
                   hung_up>>

ParserNext == \E line \in ParserLines : ParseInput(line)

ParserSpec == Init /\ [][ParserNext]_vars

(***************************************************************************)
(* C16.  Parser round-trip: for any Event parsed from a well-formed line   *)
(* with a trailing-parameter segment, joining code and args with single    *)
(* spaces, the last argument written after ' :' if it contains a space or  *)
(* starts with ':', gives a line that parses to the same code and args.    *)
(***************************************************************************)
\* a line that parsed, whose parameters hold a " :" segment
C16_WithTrailing ==
    /\ last.op = "parse"
    /\ last.out.exc = "none"
    /\ Contains(last.arg, <<" ", ":">>)
    /\ last.out.event.code = <<"C">>

RECURSIVE C16_Spaced(_)
C16_Spaced(args) ==
    IF args = <<>> THEN <<>> ELSE <<" ">> \o Head(args) \o C16_Spaced(Tail(args))

C16_Rejoin(e, quoted) ==
    e.code \o C16_Spaced(SubSeq(e.args, 1, Len(e.args) - 1))
           \o (IF quoted THEN <<" ", ":">> ELSE <<" ">>) \o e.args[Len(e.args)]

C16_SameCodeArgs(e, p) ==
    p.exc = "none" /\ p.event.code = e.code /\ p.event.args = e.args

C16_RoundTrip ==
    C16_WithTrailing =>
        C16_SameCodeArgs(last.out.event,
                         Parse(C16_Rejoin(last.out.event,
                                          \/ Contains(last.out.event.msg, <<" ">>)
                                          \/ MatchAt(last.out.event.msg, <<":">>, 0))
                                   \o CRLF))

\* a prefixed line with two middle parameters and a trailing one of two words
C16_Witness ==
    /\ C16_WithTrailing
    /\ last.out.event.nick = <<"n">>
    /\ last.out.event.args = << <<"m">>, <<"k">>, <<"x", " ", "x">> >>

\* the statement as the claim makes it: the last argument is written after
\* ' :' only if it contains a space
C16_RoundTripAsStated ==
    C16_WithTrailing =>
        C16_SameCodeArgs(last.out.event,
                         Parse(C16_Rejoin(last.out.event,
                                          Contains(last.out.event.msg, <<" ">>))
                                   \o CRLF))

(***************************************************************************)
(* C19.  For every line that starts with ':', the parsed nick, user and    *)
(* host are either all set or all unset, and they are set exactly when the *)
(* source prefix contains both '!' and '@' with '!' appearing before '@';  *)
(* then nick is the text before '!', user the text between '!' and '@',    *)
(* host the text after '@'.                                                *)
(***************************************************************************)
C19_Prefixed == last.op = "parse" /\ last.out.exc = "none" /\ last.arg[1] = ":"

\* '!' and '@' are both in the source, the first '!' before the first '@'
C19_BangBeforeAt(source) ==
    /\ Contains(source, <<"!">>)
    /\ Contains(source, <<"@">>)
    /\ Find(source, <<"!">>) < Find(source, <<"@">>)

C19_NickUserHost ==
    C19_Prefixed =>
        LET e == last.out.event
            i == Find(e.source, <<"!">>)
            j == Find(e.source, <<"@">>)
        IN /\ (e.nick = None) = (e.user = None)
           /\ (e.nick = None) = (e.host = None)
           /\ (e.nick # None) = C19_BangBeforeAt(e.source)
           /\ (e.nick # None) =>
                  /\ e.nick = SubSeq(e.source, 1, i)
                  /\ e.user = SubSeq(e.source, i + 2, j)
                  /\ e.host = SubSeq(e.source, j + 2, Len(e.source))

(***************************************************************************)
(* color_wrap alone: applied to messages put together from placeholders    *)
(* and stretches of other text.  last holds the pieces and the result.     *)
(***************************************************************************)
Placeholder(name) == <<"$", "{">> \o name \o <<"}">>

PlaceholderNames ==
    { <<"r", "e", "d">>, <<"r", "e", "s", "e", "t">>, <<"z", "z">>, <<"R", "e", "d">> }

\* text that holds no placeholder, however the pieces are put together
OtherText == { <<"x">>, <<" ">>, <<"$">>, <<"}">>, <<"$", "{", "}">> }

ColorPieces == { Placeholder(name) : name \in PlaceholderNames } \cup OtherText

ColorInputs == Texts(ColorPieces, MaxPieces)

\* lines 35-59 on one message
WrapInput(pieces) ==
    /\ last.op = "init"
    /\ last' = [op |-> "color_wrap", arg |-> pieces, out |-> color_wrap(Concat(pieces))]
    /\ UNCHANGED <<stream, open, reading, inbuf, channels,
                   most_recent_highlight_channel, most_recent_highlight_nick,
                   callbacks, running, inflight, started, opened, received, inputs,
                   hung_up>>

ColorNext == \E pieces \in ColorInputs : WrapInput(pieces)

ColorSpec == Init /\ [][ColorNext]_vars

(***************************************************************************)
(* C17.  color_wrap replaces every placeholder '${name}' whose name is a   *)
(* recognized color with the IRC color-control byte followed by that       *)
(* color's two-digit code, replaces every placeholder with an unrecognized *)
(* name by the bare name, and leaves all text outside placeholders         *)
(* unchanged.                                                              *)
(***************************************************************************)
C17_Code(name) ==
    CASE name = <<"r", "e", "d">> -> <<"0", "4">>
      [] name = <<"r", "e", "s", "e", "t">> -> <<"9", "9">>
      [] OTHER -> <<>>

C17_Image(piece) ==
    IF piece \in OtherText THEN piece
    ELSE IF C17_Code(SubSeq(piece, 3, Len(piece) - 1)) # <<>>
      THEN <<"ETX">> \o C17_Code(SubSeq(piece, 3, Len(piece) - 1))
    ELSE SubSeq(piece, 3, Len(piece) - 1)

C17_ColorWrap ==
    (last.op = "color_wrap") =>
        last.out = Concat([k \in DOMAIN last.arg |-> C17_Image(last.arg[k])])

\* a recognized colour, an unrecognized name and other text in one message
C17_Witness ==
    /\ last.op = "color_wrap"
    /\ last.arg = << <<"x">>, Placeholder(<<"r", "e", "d">>), Placeholder(<<"z", "z">>) >>
    /\ last.out = <<"x", "ETX", "0", "4", "z", "z">>

(***************************************************************************)
(* C18.  In send_from_slack, when the body contains ':', the destination   *)
(* channel is '#' followed by the part before the first ':' with           *)
(* surrounding whitespace trimmed and '#' stripped, the text is the part   *)
(* after the first ':' trimmed, and the line sent is                       *)
(* "PRIVMSG <channel> :[slack] @<user> said '<text>'"; this explicit       *)
(* destination takes precedence over any recorded                          *)
(* most_recent_highlight_channel.                                          *)
(***************************************************************************)
C18_Channel(body) ==
    <<"#">> \o Strip(Strip(SubSeq(body, 1, Find(body, <<":">>)), Whitespace), {"#"})

C18_Text(body) ==
    Strip(SubSeq(body, Find(body, <<":">>) + 2, Len(body)), Whitespace)

C18_Line(body) ==
    PRIVMSG \o <<" ">> \o C18_Channel(body) \o <<" ", ":">>
        \o <<"[", "s", "l", "a", "c", "k", "]", " ", "@">> \o PollUser
        \o <<" ", "s", "a", "i", "d", " ", "'">> \o C18_Text(body) \o <<"'">>

C18_ExplicitRoute ==
    (C12_Routed(last) /\ Contains(last.arg, <<":">>) /\ last.wasOpen) =>
        OfKind(last.fx, "write") =
            <<Fx("write", last.stream, TRUE, C18_Line(last.arg) \o CRLF)>>

(***************************************************************************)
(* C20.  In every reachable state most_recent_highlight_channel is either  *)
(* unset or a member of channels, so every PRIVMSG that send_from_slack    *)
(* sends through the fallback route is addressed to a joined channel,      *)
(* whatever lines the server delivers.                                     *)
(***************************************************************************)
C20_FallbackJoined ==
    /\ most_recent_highlight_channel = None
           \/ most_recent_highlight_channel \in channels
    /\ (C12_Routed(last) /\ ~Contains(last.arg, <<":">>)) =>
           \A i \in DOMAIN last.fx :
               last.fx[i].k = "write" =>
                   \E c \in channels :
                       MatchAt(last.fx[i].line, PRIVMSG \o <<" ">> \o c \o <<" ", ":">>, 0)

====
